---- MODULE Spec2Model ----
(***************************************************************************)
(* A model of the MCP proxy (mcp_proxy.py): the recursive schema type      *)
(* resolver get_python_type, the per-tool signature synthesis of           *)
(* setup_proxy_tools, and the generated forwarding stubs.                  *)
(*                                                                         *)
(* JSON values are tagged records.  Python text (the annotation strings    *)
(* the resolver returns, the generated source) is a sequence of pieces;    *)
(* a piece is a run of characters that is never split: a fixed word of the *)
(* generator ("Union", "[", ", ", "int") or one character of a user-given  *)
(* string.  Two texts are equal as Python strings iff they are equal as    *)
(* piece sequences, for the pieces used here.                              *)
(***************************************************************************)
EXTENDS Integers, Sequences, FiniteSets, TLC

(* ----------------------------- JSON values ----------------------------- *)

None == [k |-> "null"]

JBool(b) == [k |-> "bool", v |-> b]

JInt(n) == [k |-> "int", v |-> n]

\* A float is carried by its shortest decimal text (what str() prints).
JFloat(r) == [k |-> "float", v |-> r]

\* A string is its sequence of pieces.
JStr(cs) == [k |-> "str", v |-> cs]

JList(xs) == [k |-> "list", v |-> xs]

\* A dict keeps its keys in insertion order (ks) and maps them (at).
JDict(ks, at) == [k |-> "dict", ks |-> ks, at |-> at]

EmptyDict == JDict(<<>>, <<>>)

\* A one-key dict and the extension of a dict by a key (dict literal order).
D1(key, val) == JDict(<<key>>, key :> val)

DPut(d, key, val) ==
    IF key \in DOMAIN d.at
    THEN JDict(d.ks, [x \in DOMAIN d.at |-> IF x = key THEN val ELSE d.at[x]])
    ELSE JDict(Append(d.ks, key), d.at @@ (key :> val))

Word(w) == JStr(<<w>>)

(* --------------------------- Python primitives ------------------------- *)

Ret(t) == [exc |-> "none", val |-> t]

Raise(e) == [exc |-> e, val |-> <<>>]

IsDict(x) == x.k = "dict"

IsList(x) == x.k = "list"

\* isinstance(v, str)
IsStr(x) == x.k = "str"

\* isinstance(v, int): bool is a subclass of int.
IsInt(x) == x.k \in {"int", "bool"}

\* isinstance(v, float)
IsFloat(x) == x.k = "float"

\* isinstance(v, bool)
IsBool(x) == x.k = "bool"

\* x == 'w' for a string constant w.
EqWord(x, w) == IsStr(x) /\ x.v = <<w>>

\* bool(x)
Truthy(x) ==
    CASE x.k = "null" -> FALSE
      [] x.k = "bool" -> x.v
      [] x.k = "int" -> x.v # 0
      [] x.k = "float" -> x.v \notin {"0.0", "-0.0"}
      [] x.k = "str" -> x.v # <<>>
      [] x.k = "list" -> x.v # <<>>
      [] x.k = "dict" -> x.ks # <<>>

\* key in x: "yes", "no", or "TypeError" (x is not a container).
Contains(x, key) ==
    CASE IsDict(x) -> IF key \in DOMAIN x.at THEN "yes" ELSE "no"
      [] IsList(x) -> IF \E i \in 1..Len(x.v) : EqWord(x.v[i], key)
                      THEN "yes" ELSE "no"
      [] IsStr(x) -> IF \E i \in 1..Len(x.v) : x.v[i] = key
                     THEN "yes" ELSE "no"
      [] OTHER -> "TypeError"

\* d.get(key, dflt) on a dict d.
Get(d, key, dflt) == IF key \in DOMAIN d.at THEN d.at[key] ELSE dflt

\* list(x): the elements an iteration over x yields; only for iterables.
\* A string yields its pieces (its characters, for a user-supplied string).
Iter(x) ==
    CASE IsList(x) -> x.v
      [] IsDict(x) -> [i \in 1..Len(x.ks) |-> Word(x.ks[i])]
      [] IsStr(x) -> [i \in 1..Len(x.v) |-> Word(x.v[i])]

Iterable(x) == x.k \in {"list", "dict", "str"}

\* list(d.values())
Values(d) == [i \in 1..Len(d.ks) |-> d.at[d.ks[i]]]

\* str(v) of a number or a boolean.
Str(x) ==
    CASE x.k = "int" -> <<ToString(x.v)>>
      [] x.k = "bool" -> IF x.v THEN <<"True">> ELSE <<"False">>
      [] x.k = "float" -> <<x.v>>

RECURSIVE Join(_, _)
\* sep.join(ts)
Join(ts, sep) ==
    IF ts = <<>> THEN <<>>
    ELSE IF Len(ts) = 1 THEN ts[1]
    ELSE ts[1] \o sep \o Join(Tail(ts), sep)

\* The first exception among results, else "none".
FirstExc(rs) ==
    IF \E i \in 1..Len(rs) : rs[i].exc # "none"
    THEN rs[CHOOSE i \in 1..Len(rs) :
                /\ rs[i].exc # "none"
                /\ \A j \in 1..(i - 1) : rs[j].exc = "none"].exc
    ELSE "none"

RECURSIVE unique_types(_)
\* "Remove duplicates while preserving order": t not in unique_types.
unique_types(ts) ==
    IF ts = <<>> THEN <<>>
    ELSE LET r == unique_types(SubSeq(ts, 1, Len(ts) - 1))
             l == ts[Len(ts)]
         IN  IF \E i \in 1..Len(r) : r[i] = l THEN r ELSE Append(r, l)

(* ------------------ get_python_type (mcp_proxy.py 52-214) --------------- *)

DictStrAny == <<"dict", "[", "str", ", ", "Any", "]">>

\* f"dict[str, {t}]"
DictStr(t) == <<"dict", "[", "str", ", ">> \o t \o <<"]">>

\* f"Union[{', '.join(ts)}]"
UnionOf(ts) == <<"Union", "[">> \o Join(ts, <<", ">>) \o <<"]">>

\* f"Literal[{', '.join(ts)}]"
LiteralOf(ts) == <<"Literal", "[">> \o Join(ts, <<", ">>) \o <<"]">>

Vals(rs) == [i \in 1..Len(rs) |-> rs[i].val]

RECURSIVE get_python_type(_)

\* Lines 66-72: one resolution per listed kind, substituted as the type.
type_variants(param_info, param_type) ==
    LET rs == [i \in 1..Len(param_type.v) |->
                 get_python_type(DPut(param_info, "type", param_type.v[i]))]
    IN  IF FirstExc(rs) # "none" THEN Raise(FirstExc(rs))
        ELSE Ret(UnionOf(Vals(rs)))

\* Lines 82-87.
array_type(param_info) ==
    LET items == Get(param_info, "items", EmptyDict)
        item_type == get_python_type(items)
    IN  IF Truthy(items)
        THEN IF item_type.exc # "none" THEN item_type
             ELSE Ret(<<"list", "[">> \o item_type.val \o <<"]">>)
        ELSE Ret(<<"list", "[", "Any", "]">>)

\* Lines 94-105 and 193-204: the distinct value types of a properties dict.
value_types_dict(properties) ==
    LET rs == [i \in 1..Len(properties.ks) |->
                 get_python_type(properties.at[properties.ks[i]])]
        value_types == unique_types(Vals(rs))
    IN  IF FirstExc(rs) # "none" THEN Raise(FirstExc(rs))
        ELSE IF Len(value_types) = 1 THEN Ret(DictStr(value_types[1]))
        ELSE IF Len(value_types) > 1 THEN Ret(DictStr(UnionOf(value_types)))
        ELSE Ret(DictStrAny)

\* Lines 90-113.
object_type(param_info) ==
    LET properties == Get(param_info, "properties", EmptyDict)
        additional_props == Get(param_info, "additionalProperties", None)
        value_type == get_python_type(additional_props)
    IN  IF Truthy(properties)
        THEN IF IsDict(properties) THEN value_types_dict(properties)
             ELSE Raise("AttributeError")
        ELSE IF Truthy(additional_props) /\ IsDict(additional_props)
             THEN IF value_type.exc # "none" THEN value_type
                  ELSE Ret(DictStr(value_type.val))
             ELSE Ret(DictStrAny)

\* Lines 134-143: the isinstance chain of the mixed-enum fallback.
enum_kind(v) ==
    IF IsStr(v) THEN "str"
    ELSE IF IsInt(v) THEN "int"
    ELSE IF IsFloat(v) THEN "float"
    ELSE IF IsBool(v) THEN "bool"
    ELSE "Any"

\* sorted(type_set) for a set of the five kind names.
sorted_kinds(type_set) ==
    SelectSeq(<<"Any", "bool", "float", "int", "str">>,
              LAMBDA n : n \in type_set)

\* Lines 118-146.
enum_type(enum_values) ==
    IF ~Truthy(enum_values) THEN Ret(<<"str">>)
    ELSE IF ~Iterable(enum_values) THEN Raise("TypeError")
    ELSE
    LET vs == Iter(enum_values)
        n == Len(vs)
        escaped_values == [i \in 1..n |-> <<"\"">> \o vs[i].v \o <<"\"">>]
        type_set == {enum_kind(vs[i]) : i \in 1..n}
        kinds == sorted_kinds(type_set)
    IN  IF \A i \in 1..n : IsStr(vs[i])
        THEN Ret(LiteralOf(escaped_values))
        ELSE IF \A i \in 1..n : IsInt(vs[i])
        THEN Ret(LiteralOf([i \in 1..n |-> Str(vs[i])]))
        ELSE IF \A i \in 1..n : IsInt(vs[i]) \/ IsFloat(vs[i])
        THEN Ret(LiteralOf([i \in 1..n |-> Str(vs[i])]))
        ELSE Ret(UnionOf([i \in 1..Len(kinds) |-> <<kinds[i]>>]))

\* Lines 160-175.
any_of_type(param_info) ==
    LET schemas == Get(param_info, "anyOf",
                       Get(param_info, "oneOf", JList(<<>>)))
        xs == Iter(schemas)
        union_types == [i \in 1..Len(xs) |-> get_python_type(xs[i])]
        uniq == unique_types(Vals(union_types))
    IN  IF ~Truthy(schemas) THEN Ret(<<"Any">>)
        ELSE IF ~Iterable(schemas) THEN Raise("TypeError")
        ELSE IF FirstExc(union_types) # "none"
        THEN Raise(FirstExc(union_types))
        ELSE IF Len(uniq) = 1 THEN Ret(uniq[1])
        ELSE Ret(UnionOf(uniq))

RECURSIVE dict_update(_, _, _)
\* all_properties.update(props) for a dict props, from its i-th key on.
dict_update(all_properties, props, i) ==
    IF i > Len(props.ks) THEN all_properties
    ELSE dict_update(DPut(all_properties, props.ks[i], props.at[props.ks[i]]),
                     props, i + 1)

RECURSIVE merge_all_of(_, _)
\* Lines 181-189: the merge loop over the allOf members, with its break.
\* update() of a non-dict: an empty list or string adds nothing, None and
\* numbers are not iterable; a non-empty list or string is read as key/value
\* pairs, which no input of this model carries (taken as a ValueError).
merge_all_of(xs, all_properties) ==
    IF xs = <<>>
    THEN [exc |-> "none", all_object |-> TRUE, all_properties |-> all_properties]
    ELSE LET schema == Head(xs)
             props == Get(schema, "properties", EmptyDict)
             fail(e) == [exc |-> e, all_object |-> FALSE,
                         all_properties |-> all_properties]
         IN  IF ~IsDict(schema) THEN fail("AttributeError")
             ELSE IF EqWord(Get(schema, "type", None), "object")
             THEN IF IsDict(props)
                  THEN merge_all_of(Tail(xs), dict_update(all_properties, props, 1))
                  ELSE IF ~Iterable(props) THEN fail("TypeError")
                  ELSE IF Truthy(props) THEN fail("ValueError")
                  ELSE merge_all_of(Tail(xs), all_properties)
             ELSE fail("none")

\* Lines 178-208.
all_of_type(param_info) ==
    LET all_schemas == Get(param_info, "allOf", JList(<<>>))
        m == merge_all_of(Iter(all_schemas), EmptyDict)
    IN  IF ~Truthy(all_schemas) THEN Ret(DictStrAny)
        ELSE IF ~Iterable(all_schemas) THEN Raise("TypeError")
        ELSE IF m.exc # "none" THEN Raise(m.exc)
        ELSE IF m.all_object /\ Truthy(m.all_properties)
        THEN value_types_dict(m.all_properties)
        ELSE Ret(DictStrAny)

\* Lines 75, 77, 79, 115: the annotations of the primitive kinds.
integer_type == <<"int">>

number_type_as_int == <<"int">>

number_type == <<"float">>

boolean_type == <<"bool">>

null_type == <<"type(None)">>

\* Lines 147-157: every format resolves to str.
string_type(param_info) == Ret(<<"str">>)

\* Lines 74-214: the elif chain on the (unwrapped) type.
resolve_by_type(param_info, param_type) ==
    IF EqWord(param_type, "integer") THEN Ret(integer_type)
    ELSE IF EqWord(param_type, "number") THEN Ret(number_type)
    ELSE IF EqWord(param_type, "boolean") THEN Ret(boolean_type)
    ELSE IF EqWord(param_type, "array") THEN array_type(param_info)
    ELSE IF EqWord(param_type, "object") THEN object_type(param_info)
    ELSE IF EqWord(param_type, "null") THEN Ret(null_type)
    ELSE IF "enum" \in DOMAIN param_info.at
    THEN enum_type(param_info.at["enum"])
    ELSE IF EqWord(param_type, "string") THEN string_type(param_info)
    ELSE IF "anyOf" \in DOMAIN param_info.at \/ "oneOf" \in DOMAIN param_info.at
    THEN any_of_type(param_info)
    ELSE IF "allOf" \in DOMAIN param_info.at THEN all_of_type(param_info)
    ELSE IF /\ param_type = None
            /\ ~\E key \in {"anyOf", "oneOf", "allOf", "enum", "$ref"} :
                   key \in DOMAIN param_info.at
    THEN Ret(<<"Any">>)
    ELSE Ret(<<"str">>)

\* Lines 52-72: references, then the list-of-types unwrapping.
get_python_type(param_info) ==
    LET has_ref == Contains(param_info, "$ref")
        param_type == Get(param_info, "type", None)
    IN  IF has_ref = "TypeError" THEN Raise("TypeError")
        ELSE IF has_ref = "yes" THEN Ret(DictStrAny)
        ELSE IF ~IsDict(param_info) THEN Raise("AttributeError")
        ELSE IF IsList(param_type)
        THEN IF Len(param_type.v) = 1
             THEN resolve_by_type(param_info, param_type.v[1])
             ELSE type_variants(param_info, param_type)
        ELSE resolve_by_type(param_info, param_type)

(* ---------------- Python's reading of generated source ------------------ *)
(* exec(func_code, exec_globals), line 274, reads the text the generator   *)
(* wrote.  Its tokenizer decides where a string literal ends, whatever     *)
(* the generator meant: a quote or a backslash inside a user-supplied      *)
(* string is read as Python reads it.                                      *)

\* The integers and floats the model's inputs carry.
IntTexts == {ToString(n) : n \in 0..3}

IntOf(w) == CHOOSE n \in 0..3 : ToString(n) = w

FloatTexts == {"1.5", "2.5"}

\* Names bound in exec_globals (lines 262-273), and type(None).
NameWords ==
    {"dict", "list", "Union", "Literal", "Optional", "Any", "int", "str",
     "float", "bool", "type(None)"}

Op(w) == [t |-> "op", v |-> <<w>>]

LexFail == [ok |-> FALSE, val |-> <<>>, next |-> 0]

RECURSIVE scan_string(_, _, _, _, _)
\* The body of a string literal from text[j] on: q is its quote, n the length
\* of the closing run (1, or 3 for a triple-quoted string), acc the value read.
\* \" \' \\ are escapes; any other backslash pair stays as written.
scan_string(text, j, q, n, acc) ==
    IF j > Len(text) THEN LexFail
    ELSE IF text[j] = "\\"
    THEN IF j + 1 > Len(text) THEN LexFail
         ELSE IF text[j + 1] \in {"\"", "'", "\\"}
         THEN scan_string(text, j + 2, q, n, Append(acc, text[j + 1]))
         ELSE scan_string(text, j + 2, q, n, acc \o <<"\\", text[j + 1]>>)
    ELSE IF \A i \in 0..(n - 1) : j + i <= Len(text) /\ text[j + i] = q
    THEN [ok |-> TRUE, val |-> acc, next |-> j + n]
    ELSE scan_string(text, j + 1, q, n, Append(acc, text[j]))

RECURSIVE tokenize(_, _, _)

\* The rest of the line behind a string literal.
after_string(text, toks, lit) ==
    IF lit.ok
    THEN tokenize(text, lit.next, Append(toks, [t |-> "str", v |-> lit.val]))
    ELSE [ok |-> FALSE, toks |-> <<>>]

\* The tokens of a line of source.  A string left open at the end of the
\* line is a SyntaxError; so is a triple-quoted one left open, which the
\* docstring's quotes close with the description's words right behind it.
tokenize(text, i, toks) ==
    IF i > Len(text) THEN [ok |-> TRUE, toks |-> toks]
    ELSE IF text[i] \in {"\"", "'"}
    THEN LET triple == /\ i + 2 <= Len(text)
                       /\ text[i + 1] = text[i]
                       /\ text[i + 2] = text[i]
         IN  after_string(text, toks,
                          scan_string(text, IF triple THEN i + 3 ELSE i + 1,
                                      text[i], IF triple THEN 3 ELSE 1, <<>>))
    \* a name right behind a string literal, or a stray backslash
    ELSE IF text[i] \in {"z", "\\"} THEN [ok |-> FALSE, toks |-> <<>>]
    ELSE tokenize(text, i + 1, Append(toks, Op(text[i])))

IsTok(toks, i, w) == i <= Len(toks) /\ toks[i] = Op(w)

RECURSIVE concat_strings(_, _, _)
\* Adjacent string literals are one string.
concat_strings(toks, i, acc) ==
    IF i <= Len(toks) /\ toks[i].t = "str"
    THEN concat_strings(toks, i + 1, acc \o toks[i].v)
    ELSE [ok |-> TRUE, val |-> JStr(acc), next |-> i]

TypeTerm(name, args) == [k |-> "type", name |-> name, args |-> args]

RECURSIVE parse_expr(_, _)
RECURSIVE parse_items(_, _, _, _)
RECURSIVE parse_pairs(_, _, _)

\* Behind the expression e of a bracketed list: ', ' and more, or the end.
more_items(toks, close, acc, e) ==
    IF ~e.ok THEN LexFail
    ELSE IF IsTok(toks, e.next, ", ")
    THEN parse_items(toks, e.next + 1, close, Append(acc, e.val))
    ELSE IF IsTok(toks, e.next, close)
    THEN [ok |-> TRUE, val |-> Append(acc, e.val), next |-> e.next + 1]
    ELSE LexFail

\* expr (', ' expr)* up to the closing bracket.
parse_items(toks, i, close, acc) ==
    IF i > Len(toks) THEN LexFail
    ELSE IF IsTok(toks, i, close) THEN [ok |-> TRUE, val |-> acc, next |-> i + 1]
    ELSE more_items(toks, close, acc, parse_expr(toks, i))

\* Behind the value of a key of a dict display.
more_pairs(toks, put, val) ==
    IF ~val.ok THEN LexFail
    ELSE IF IsTok(toks, val.next, ", ")
    THEN parse_pairs(toks, val.next + 1, DPut(put[1], put[2], val.val))
    ELSE IF IsTok(toks, val.next, "}")
    THEN [ok |-> TRUE, val |-> DPut(put[1], put[2], val.val),
          next |-> val.next + 1]
    ELSE LexFail

\* Behind a key of a dict display: ': ' and the value.
pair_value(toks, acc, key) ==
    IF ~key.ok THEN LexFail
    ELSE IF ~IsStr(key.val) \/ Len(key.val.v) # 1 \/ ~IsTok(toks, key.next, ": ")
    THEN LexFail
    ELSE more_pairs(toks, <<acc, key.val.v[1]>>, parse_expr(toks, key.next + 1))

\* 'key': expr (', ' 'key': expr)* up to the closing brace.
parse_pairs(toks, i, acc) ==
    IF i > Len(toks) THEN LexFail
    ELSE IF IsTok(toks, i, "}") THEN [ok |-> TRUE, val |-> acc, next |-> i + 1]
    ELSE pair_value(toks, acc, parse_expr(toks, i))

\* name[args]
subscripted(w, args) ==
    IF args.ok /\ args.val # <<>>
    THEN [ok |-> TRUE, val |-> TypeTerm(w, args.val), next |-> args.next]
    ELSE LexFail

\* [elems]
list_display(elems) ==
    IF elems.ok THEN [elems EXCEPT !.val = JList(@)] ELSE LexFail

\* One expression: a string, a number, a constant, a list or dict display,
\* a name, or a name subscripted by one or more expressions.
parse_expr(toks, i) ==
    IF i > Len(toks) THEN LexFail
    ELSE IF toks[i].t = "str" THEN concat_strings(toks, i, <<>>)
    ELSE
    LET w == toks[i].v[1]
        one(v) == [ok |-> TRUE, val |-> v, next |-> i + 1]
    IN  IF w \in NameWords \/ w = "["
        THEN IF w = "[" \/ IsTok(toks, i + 1, "[")
             THEN LET items == parse_items(toks, IF w = "[" THEN i + 1 ELSE i + 2,
                                           "]", <<>>)
                  IN  IF w = "[" THEN list_display(items)
                      ELSE subscripted(w, items)
             ELSE one(TypeTerm(w, <<>>))
        ELSE IF w \in IntTexts THEN one(JInt(IntOf(w)))
        ELSE IF w \in FloatTexts THEN one(JFloat(w))
        ELSE IF w = "True" THEN one(JBool(TRUE))
        ELSE IF w = "False" THEN one(JBool(FALSE))
        ELSE IF w = "None" THEN one(None)
        ELSE IF w = "{" THEN parse_pairs(toks, i + 1, EmptyDict)
        ELSE LexFail

\* A whole token sequence read as one expression.
whole_expr(toks, e) ==
    IF e.ok /\ e.next = Len(toks) + 1
    THEN [ok |-> TRUE, val |-> e.val]
    ELSE [ok |-> FALSE, val |-> None]

expr_of(lexed) ==
    IF lexed.ok THEN whole_expr(lexed.toks, parse_expr(lexed.toks, 1))
    ELSE [ok |-> FALSE, val |-> None]

\* The value of a whole text read as one expression.
py_eval(text) == expr_of(tokenize(text, 1, <<>>))

(* ------------------------- schema fragments ---------------------------- *)
(* The fragments the resolver is run on: what an endpoint may put as a     *)
(* property's schema (tool.inputSchema['properties'] values, line 46).     *)

\* Longest `type` list, `enum` list, anyOf/oneOf/allOf list, properties dict.
MaxTypes == 2

MaxEnum == 2

MaxMembers == 2

MaxProps == 2

SeqsUpTo(S, n) == UNION {[1..m -> S] : m \in 0..n}

\* Sequences without repetition.
InjSeqsUpTo(S, n) ==
    {q \in SeqsUpTo(S, n) : \A i, j \in 1..Len(q) : i # j => q[i] # q[j]}

\* An optional key: Absent stands for "the key is not there".
Absent == [k |-> "absent"]

Opt(S) == S \cup {Absent}

Put(d, key, v) == IF v = Absent THEN d ELSE DPut(d, key, v)

TypeOnly(w) == D1("type", Word(w))

KindWords ==
    {"integer", "number", "boolean", "string", "null", "array", "object"}

TypeVals ==
    {Word(w) : w \in KindWords \cup {"foo"}}
    \cup {JList(q) : q \in SeqsUpTo({Word("string"), Word("integer"),
                                     Word("foo")}, MaxTypes)}
    \cup {None, JInt(1)}

EnumAtoms ==
    {Word("z"), JStr(<<"\"">>), JInt(1), JBool(TRUE), JFloat("1.5"), None}

EnumVals == {JList(q) : q \in SeqsUpTo(EnumAtoms, MaxEnum)}

\* JSON values that are no schema objects.
Junk ==
    {None, JBool(TRUE), JInt(1), JStr(<<"z">>), JList(<<>>),
     JList(<<TypeOnly("integer")>>), JList(<<Word("$ref")>>)}

MixedEnum == D1("enum", JList(<<Word("z"), JInt(1)>>))

PropNames == {"a", "b", "c"}

PropVals == {TypeOnly("integer"), TypeOnly("string"), MixedEnum, JBool(TRUE)}

PropDicts ==
    {JDict(ks, [n \in {ks[i] : i \in 1..Len(ks)} |->
                  vs[CHOOSE i \in 1..Len(ks) : ks[i] = n]]) :
        ks \in InjSeqsUpTo(PropNames, MaxProps), vs \in [1..MaxProps -> PropVals]}

ObjectWith(properties) == DPut(TypeOnly("object"), "properties", properties)

ItemVals ==
    Junk \cup PropVals
    \cup {EmptyDict, TypeOnly("array"), ObjectWith(D1("a", TypeOnly("null")))}

AdditionalVals ==
    {JBool(TRUE), TypeOnly("integer"), D1("items", JBool(TRUE)), EmptyDict}

AnyOfMembers ==
    {TypeOnly("integer"), TypeOnly("string"), TypeOnly("foo"),
     ObjectWith(D1("a", TypeOnly("integer"))),
     D1("anyOf", JList(<<TypeOnly("integer"), TypeOnly("string")>>)),
     JBool(TRUE)}

AllOfMembers ==
    {ObjectWith(D1("a", TypeOnly("integer"))),
     ObjectWith(DPut(D1("a", TypeOnly("string")), "b", TypeOnly("boolean"))),
     ObjectWith(DPut(D1("b", TypeOnly("integer")), "a", JBool(TRUE))),
     TypeOnly("object"), TypeOnly("string"), JBool(TRUE)}

\* What a combinator may stand beside.
OuterTypes ==
    {Word("string"), Word("integer"), Word("foo"), JList(<<Word("foo")>>),
     JList(<<Word("string"), Word("integer")>>)}

OuterEnums == {JList(<<>>), JList(<<Word("z")>>)}

Lists(S, n) == {JList(q) : q \in SeqsUpTo(S, n)}

\* type / enum / $ref in every combination.
ScalarFragment(r, t, e) ==
    Put(Put(Put(EmptyDict, "$ref", r), "type", t), "enum", e)

ArrayFragment(t, i, e) == Put(Put(D1("type", t), "items", i), "enum", e)

ObjectFragment(p, a) ==
    Put(Put(TypeOnly("object"), "properties", p), "additionalProperties", a)

CombinatorFragment(r, t, e, any, one, all) ==
    Put(Put(Put(ScalarFragment(r, t, e), "anyOf", any), "oneOf", one),
        "allOf", all)

(* ------------------------- signature synthesis ------------------------- *)
(* One pass of the registration loop (lines 36-274) for one tool: the      *)
(* parameter definitions, the source of the stub, and what exec makes of   *)
(* it.                                                                     *)

RECURSIVE repr(_)
\* repr(v) of a JSON value: a string goes between single quotes with its
\* backslashes doubled (the strings here hold no single quote).
repr(x) ==
    CASE x.k = "null" -> <<"None">>
      [] x.k \in {"bool", "int", "float"} -> Str(x)
      [] x.k = "str" ->
           <<"'">>
           \o Join([i \in 1..Len(x.v) |->
                      IF x.v[i] = "\\" THEN <<"\\", "\\">> ELSE <<x.v[i]>>], <<>>)
           \o <<"'">>
      [] x.k = "list" ->
           <<"[">> \o Join([i \in 1..Len(x.v) |-> repr(x.v[i])], <<", ">>) \o <<"]">>
      [] x.k = "dict" ->
           <<"{">>
           \o Join([i \in 1..Len(x.ks) |->
                      repr(Word(x.ks[i])) \o <<": ">> \o repr(x.at[x.ks[i]])],
                   <<", ">>)
           \o <<"}">>

\* Lines 219-237 with the default consulted before the required list.
param_defs_entry_default_first(param_name, param_info, required, param_type) ==
    LET default_val == Get(param_info, "default", None)
        head == <<param_name, ": ">> \o param_type.val
    IN  IF param_type.exc # "none" THEN param_type
        ELSE IF default_val.k # "null"
        THEN Ret(head \o <<" = ">> \o repr(default_val))
        ELSE IF Contains(required, param_name) = "yes" THEN Ret(head)
        ELSE Ret(<<param_name, ": ", "Optional", "[">> \o param_type.val
                 \o <<"]", " = ", "None">>)

\* Lines 219-237: what is appended to param_defs for a parameter of the
\* resolved type param_type.
param_defs_entry(param_name, param_info, required, param_type) ==
    LET default_val == Get(param_info, "default", None)
        head == <<param_name, ": ">> \o param_type.val
    IN  IF param_type.exc # "none" THEN param_type
        ELSE IF Contains(required, param_name) = "TypeError" THEN Raise("TypeError")
        ELSE IF Contains(required, param_name) = "yes" THEN Ret(head)
        ELSE IF default_val.k # "null"
        THEN IF IsStr(default_val)
             THEN Ret(head \o <<" = ", "\"">> \o default_val.v \o <<"\"">>)
             ELSE IF IsList(default_val) \/ IsDict(default_val)
             THEN Ret(head \o <<" = ">> \o repr(default_val))
             ELSE Ret(head \o <<" = ">> \o Str(default_val))
        ELSE Ret(<<param_name, ": ", "Optional", "[">> \o param_type.val
                 \o <<"]", " = ", "None">>)

\* Lines 216-237: the definition of one parameter, as source text.
param_def(param_name, param_info, required) ==
    param_defs_entry(param_name, param_info, required, get_python_type(param_info))

\* Every property becomes a parameter, the reserved name too.
param_calls_with_ctx(properties) == properties.ks

\* Lines 46-49 and 239: the properties that become parameters.
param_calls(properties) == SelectSeq(properties.ks, LAMBDA n : n # "ctx")

\* A parameter of a defined function.
Param(name, has_default, default) ==
    [name |-> name, has_default |-> has_default, default |-> default]

ParamFail == [ok |-> FALSE, val |-> <<>>]

RECURSIVE parse_params(_, _, _)

\* Behind a whole parameter prm, whose text ends before toks[j].
more_params(toks, j, acc, prm) ==
    IF j > Len(toks) THEN [ok |-> TRUE, val |-> Append(acc, prm)]
    ELSE IF IsTok(toks, j, ", ")
    THEN parse_params(toks, j + 1, Append(acc, prm))
    ELSE ParamFail

\* Behind ' = ': the default.
with_default(toks, name, acc, dflt) ==
    IF dflt.ok THEN more_params(toks, dflt.next, acc, Param(name, TRUE, dflt.val))
    ELSE ParamFail

\* Behind the annotation: ' = ' and a default, or the next parameter.
after_annotation(toks, name, acc, ann) ==
    IF ~ann.ok THEN ParamFail
    ELSE IF IsTok(toks, ann.next, " = ")
    THEN with_default(toks, name, acc, parse_expr(toks, ann.next + 1))
    ELSE more_params(toks, ann.next, acc, Param(name, FALSE, None))

\* The parameter list of the def statement: name ': ' annotation, then
\* ' = ' default if there is one, parameters separated by ', '.
parse_params(toks, i, acc) ==
    IF i > Len(toks) THEN [ok |-> TRUE, val |-> acc]
    ELSE IF toks[i].t # "op" \/ ~IsTok(toks, i + 1, ": ") THEN ParamFail
    ELSE after_annotation(toks, toks[i].v[1], acc, parse_expr(toks, i + 2))

\* Python refuses a parameter without default behind one with a default,
\* and a parameter name used twice.
well_formed(params) ==
    /\ \A i, j \in 1..Len(params) :
          i < j /\ params[i].has_default => params[j].has_default
    /\ \A i, j \in 1..Len(params) : i # j => params[i].name # params[j].name

\* The function a parsed parameter list defines.
defined(parsed) ==
    IF parsed.ok /\ well_formed(parsed.val)
    THEN [exc |-> "none", val |-> parsed.val]
    ELSE [exc |-> "SyntaxError", val |-> <<>>]

params_of(lexed) ==
    IF lexed.ok THEN defined(parse_params(lexed.toks, 1, <<>>))
    ELSE [exc |-> "SyntaxError", val |-> <<>>]

\* exec(func_code, exec_globals), line 274: the function the def statement
\* defines, or the SyntaxError it raises.  The tool's name and description
\* are plain words here, so only the parameter list decides.
exec(params_str) == params_of(tokenize(params_str, 1, <<>>))

\* Lines 242-274: the stub made of the parameter definitions.
stub_of(tool, names, param_defs) ==
    IF FirstExc(param_defs) # "none" THEN Raise(FirstExc(param_defs))
    ELSE LET func == exec(Join(Vals(param_defs), <<", ">>))
         IN  IF func.exc # "none" THEN Raise(func.exc)
             ELSE [exc |-> "none",
                   val |-> [name |-> tool.name, params |-> func.val,
                            param_calls |-> names]]

\* Lines 38-40 and 46-239: the parameter definitions of a tool's schema.
param_defs_of(properties, required) ==
    [i \in 1..Len(param_calls(properties)) |->
        param_def(param_calls(properties)[i],
                  properties.at[param_calls(properties)[i]], required)]

\* Lines 36-274 for one tool: the stub, or the exception that ends the pass.
make_stub(tool) ==
    LET schema == IF Truthy(tool.inputSchema) THEN tool.inputSchema ELSE EmptyDict
        properties == Get(schema, "properties", EmptyDict)
    IN  stub_of(tool, param_calls(properties),
                param_defs_of(properties, Get(schema, "required", JList(<<>>))))

(* ------------------------------ the stub ------------------------------- *)
(* The function defined by lines 252-258, called with keyword arguments.   *)

\* A binding that lets unknown argument names pass.
bind_known(params, args) ==
    LET names == {params[i].name : i \in 1..Len(params)}
        of(n) == params[CHOOSE i \in 1..Len(params) : params[i].name = n]
    IN  IF \E n \in names : ~of(n).has_default /\ n \notin DOMAIN args
        THEN Raise("TypeError")
        ELSE [exc |-> "none",
              val |-> [n \in names |->
                         IF n \in DOMAIN args THEN args[n] ELSE of(n).default]]

\* Python's binding of the arguments to the parameters: the local variables
\* of the call, or the TypeError for an unknown name or a missing argument.
bind(params, args) ==
    LET names == {params[i].name : i \in 1..Len(params)}
        of(n) == params[CHOOSE i \in 1..Len(params) : params[i].name = n]
    IN  IF \E n \in DOMAIN args : n \notin names THEN Raise("TypeError")
        ELSE IF \E n \in names : ~of(n).has_default /\ n \notin DOMAIN args
        THEN Raise("TypeError")
        ELSE [exc |-> "none",
              val |-> [n \in names |->
                         IF n \in DOMAIN args THEN args[n] ELSE of(n).default]]

RECURSIVE call_args(_, _, _)
\* Line 256: {k: v for k, v in {"a": a, ...}.items() if v is not None}
call_args(names, locals, acc) ==
    IF names = <<>> THEN acc
    ELSE call_args(Tail(names), locals,
                   IF locals[Head(names)].k # "null"
                   THEN DPut(acc, Head(names), locals[Head(names)])
                   ELSE acc)

NoCall == [tool |-> "", args |-> <<>>, exc |-> "idle", payload |-> EmptyDict]

\* What comes of a call.
Outcome(stub, args, e, payload) ==
    [tool |-> stub.name, args |-> args, exc |-> e, payload |-> payload]

\* Lines 256-258 with the arguments bound: the payload is built and sent.
run_stub(stub, args, bound) ==
    IF bound.exc # "none" THEN Outcome(stub, args, bound.exc, EmptyDict)
    ELSE IF \E i \in 1..Len(stub.param_calls) :
                stub.param_calls[i] \notin DOMAIN bound.val
    THEN Outcome(stub, args, "NameError", EmptyDict)
    ELSE Outcome(stub, args, "none",
                 call_args(stub.param_calls, bound.val, EmptyDict))

\* One call of a stub: rejected by the binding, stopped by a name the body
\* reads but the function does not have, or forwarded by call_tool (line 258)
\* in a session of its own (line 257).
call_stub(stub, args) == run_stub(stub, args, bind(stub.params, args))

(* ------------------------------ sessions ------------------------------- *)
(* The MCPClient objects, each used as the context manager of one          *)
(* `async with` block: line 25 for discovery, line 257 for a stub call.    *)

\* Most MCPClient objects made in one run.
MaxClients == 3

\* MCPClient(transport=transport_config), entered: a session of its own,
\* open.
Client(owner) == [owner |-> owner, open |-> TRUE]

\* A block that closes its session only when it ends without an exception.
aexit_when_returning(client, outcome) ==
    IF outcome.exc = "none" THEN [client EXCEPT !.open = FALSE] ELSE client

\* Leaving an `async with` block, by return or by exception: __aexit__ is
\* called and closes the session.
aexit(client, outcome) == [client EXCEPT !.open = FALSE]

\* What the endpoint answers to call_tool: a result, or its own error.
EndpointReplies == {Ret(JInt(5)), Raise("ToolError")}

\* What ends an await without an answer: the transport fails, or the task
\* of the call is cancelled.
LocalFailures == {"TransportError", "CancelledError"}

\* A call_tool request as sent: the session, the name, the payload and the
\* endpoint's answer if one came.
Sent(client, name, payload, reply) ==
    [client |-> client, name |-> name, payload |-> payload, reply |-> reply]

\* The progress of a stub call through lines 257-258.
Flight(at, client, sent, result) ==
    [pc |-> at, client |-> client, sent |-> sent, result |-> result]

(* --------------------------- discovered tools -------------------------- *)
(* What the endpoint may answer to list_tools (line 26).                   *)

\* Longest default string, most properties of a tool.
MaxStr == 2

MaxParams == 2

\* A plain character, a double quote, a backslash.
Chars == {"z", "\"", "\\"}

DefaultStrings == {JStr(q) : q \in SeqsUpTo(Chars, MaxStr)}

WithDefault(w, d) == DPut(TypeOnly(w), "default", d)

ParamSchemas ==
    {TypeOnly("integer"), TypeOnly("string"), D1("default", Word("z")),
     WithDefault("string", None), WithDefault("number", JFloat("1.5")),
     DPut(TypeOnly("array"), "items", JBool(TRUE))}
    \cup {WithDefault("string", d) : d \in DefaultStrings}
    \cup {WithDefault("integer", JInt(n)) : n \in {0, 1}}
    \cup {WithDefault("boolean", JBool(b)) : b \in BOOLEAN}
    \cup {WithDefault("array", JList(q)) :
             q \in {<<>>, <<Word("z"), JStr(<<"\"", "\\">>)>>,
                    <<JInt(1), None, JBool(TRUE)>>}}
    \cup {WithDefault("object", d) : d \in {EmptyDict, D1("a", JStr(<<"\\">>))}}

\* What the other properties of the tool are.
PlainSchemas == {TypeOnly("integer"), WithDefault("string", Word("z"))}

ParamNames == {"a", "b", "ctx"}

RequiredLists ==
    {JList(<<>>), JList(<<Word("a")>>), JList(<<Word("b")>>),
     JList(<<Word("a"), Word("b")>>)}

Tool(name, inputSchema) ==
    [name |-> name, description |-> "d", inputSchema |-> inputSchema]

\* The properties named ks: the first with schema v, the others with w.
Properties(ks, v, w) ==
    JDict(ks, [n \in {ks[i] : i \in 1..Len(ks)} |-> IF n = ks[1] THEN v ELSE w])

OtherTools ==
    {Tool("t", None),
     Tool("u", DPut(D1("properties", D1("a", TypeOnly("integer"))),
                    "required", JList(<<Word("a")>>)))}

\* The arguments of a call: values for some of a and b, or an unknown name,
\* or the reserved name.
ArgVals == {None, JInt(1)}

CallArgs ==
    UNION {[S -> ArgVals] : S \in SUBSET {"a", "b"}}
    \cup {[n \in {x} |-> JInt(1)] : x \in {"x", "ctx"}}

(* ------------------------------ the state ------------------------------ *)

VARIABLES
    param_info,   \* the fragment given to the resolver
    resolved,     \* what the resolver made of it
    pc,           \* where main is: connect, discover, close, register,
                  \* serving, crashed
    failure,      \* the exception that ended setup_proxy_tools, or "none"
    tool_list,    \* tools_to_register (lines 30-33)
    next_tool,    \* the position of the registration loop (line 36)
    registry,     \* the functions registered on the host, by name
    clients,      \* the MCPClient sessions entered so far, in order
    listings,     \* how many times list_tools was called (line 26)
    last_call,    \* the latest stub call: its arguments, binding and payload
    call,         \* how far that call has come in lines 257-258
    flights,      \* the stub calls of concurrent callers, each with its frame
    workbench,    \* ModernMcpCli.workbench: None, or the McpWorkbench's state
    tools,        \* ModernMcpCli.tools, by name
    setup,        \* what setup_workbench returned, if it was called
    cleanups,     \* how many times cleanup was called
    last_method,  \* the latest method call on the ModernMcpCli object
    command,      \* the command that runs: tools, call or chat
    step,         \* where its run() is
    model_client, \* ModernMcpCli.model_client: None or ready
    agent,        \* ModernMcpCli.agent: None or ready
    log           \* the methods run() has called, with what they returned

vars == <<param_info, resolved, pc, failure, tool_list, next_tool, registry,
          clients, listings, last_call, call, flights, workbench, tools, setup,
          cleanups, last_method, command, step, model_client, agent, log>>

object_vars == <<workbench, tools, setup, cleanups, last_method>>

command_vars == <<command, step, model_client, agent, log>>

cli_vars == <<object_vars, command_vars>>

resolver_vars == <<param_info, resolved>>

proxy_vars == <<pc, failure, tool_list, next_tool, registry, clients,
                listings, last_call, call, flights>>

Pending == [exc |-> "pending", val |-> <<>>]

\* No stub call under way.
NoFlight == Flight("idle", 0, <<>>, Pending)

\* The callers that may have a stub call under way at the same time.
Callers == {"c1", "c2"}

\* The frame of one stub call: its bound arguments and payload (lines
\* 253-256) and its progress through lines 257-258.
Frame(bound, flight) == [bound |-> bound, flight |-> flight]

\* What a method call did: the workbench it found, the request it sent to
\* the endpoint if any, what it printed, the exception that left it.
Method(op, before, name, sent, outcome, raised) ==
    [op |-> op, before |-> before, name |-> name, sent |-> sent,
     outcome |-> outcome, raised |-> raised]

\* Lines 42-49, __init__: no workbench, no tools.
InitCli ==
    /\ workbench = "None"
    /\ tools = <<>>
    /\ setup = "not called"
    /\ cleanups = 0
    /\ last_method = Method("__init__", "None", "", FALSE, "", "none")
    /\ model_client = "None"
    /\ agent = "None"
    /\ log = <<>>

\* Nothing discovered, nothing registered, no session.
InitProxy ==
    /\ pc = "connect"
    /\ failure = "none"
    /\ tool_list = <<>>
    /\ next_tool = 1
    /\ registry = <<>>
    /\ clients = <<>>
    /\ listings = 0
    /\ last_call = NoCall
    /\ call = NoFlight
    /\ flights = [c \in Callers |-> Frame(NoCall, NoFlight)]

(* --------------------------- the resolver run -------------------------- *)

\* The fragment under resolution: one of each family of shapes.
InitFragment ==
    \/ \E r \in Opt({Word("x")}), t \in Opt(TypeVals), e \in Opt(EnumVals) :
          param_info = ScalarFragment(r, t, e)
    \/ \E w \in {"string", "integer"}, f \in {"email", "date", "foo"} :
          param_info = DPut(TypeOnly(w), "format", Word(f))
    \/ \E t \in {Word("array"), JList(<<Word("array"), Word("string")>>)},
          i \in Opt(ItemVals), e \in Opt({JList(<<Word("z")>>)}) :
          param_info = ArrayFragment(t, i, e)
    \/ \E p \in Opt(PropDicts \cup {JList(<<JInt(1)>>), None}),
          a \in Opt(AdditionalVals) :
          param_info = ObjectFragment(p, a)
    \/ \E r \in Opt({Word("x")}), t \in Opt(OuterTypes), e \in Opt(OuterEnums),
          any \in Opt(Lists(AnyOfMembers, MaxMembers)),
          one \in Opt({JList(<<>>),
                       JList(<<TypeOnly("string"), TypeOnly("boolean")>>)}),
          all \in Opt({JList(<<ObjectWith(D1("a", TypeOnly("integer")))>>)}) :
          /\ r # Absent => t = Absent /\ e = Absent
          /\ param_info = CombinatorFragment(r, t, e, any, one, all)
    \/ \E r \in Opt({Word("x")}), t \in Opt(OuterTypes), e \in Opt(OuterEnums),
          all \in Lists(AllOfMembers, MaxMembers),
          one \in Opt({JList(<<TypeOnly("integer")>>)}) :
          /\ r # Absent => t = Absent /\ e = Absent
          /\ param_info = CombinatorFragment(r, t, e, Absent, one, all)

InitResolver ==
    /\ InitFragment
    /\ resolved = Pending
    /\ InitProxy
    /\ InitCli
    /\ command = "none"
    /\ step = "none"

\* Line 216: param_type = get_python_type(param_info)
Resolve ==
    /\ resolved = Pending
    /\ resolved' = get_python_type(param_info)
    /\ UNCHANGED <<param_info, proxy_vars, cli_vars>>

NextResolver == Resolve

SpecResolver == InitResolver /\ [][NextResolver]_vars

(* ---------------------------- the proxy run --------------------------- *)

Init ==
    /\ InitProxy
    /\ InitCli
    /\ command = "none"
    /\ step = "none"
    /\ param_info = EmptyDict
    /\ resolved = Pending

\* Line 25, __aenter__: the discovery session is opened, or the connection
\* fails and the exception ends setup_proxy_tools and main.
Connect ==
    /\ pc = "connect"
    /\ \/ /\ clients' = Append(clients, Client("setup"))
          /\ pc' = "discover"
          /\ failure' = failure
       \/ /\ clients' = clients
          /\ pc' = "crashed"
          /\ failure' = "ConnectError"
    /\ UNCHANGED <<resolver_vars, cli_vars, flights, tool_list, next_tool, registry, listings,
                   last_call, call>>

\* Lines 26-33: the endpoint's tools, listed once, or the listing fails.
ListTools ==
    /\ pc = "discover"
    /\ \/ /\ \/ \E ks \in InjSeqsUpTo(ParamNames, MaxParams), v \in ParamSchemas,
                   w \in PlainSchemas, r \in RequiredLists :
                   /\ Len(ks) <= 1 => w = TypeOnly("integer")
                   /\ ks = <<>> => v = TypeOnly("integer")
                   /\ tool_list' =
                          <<Tool("t", DPut(D1("properties", Properties(ks, v, w)),
                                           "required", r))>>
             \/ \E v \in {TypeOnly("integer"), WithDefault("string", JStr(<<"\"">>))},
                   o \in OtherTools :
                   tool_list' = <<Tool("t", D1("properties", D1("a", v))), o>>
                   \/ tool_list' = <<o, Tool("t", D1("properties", D1("a", v)))>>
          /\ failure' = failure
       \/ /\ tool_list' = tool_list
          /\ failure' = "DiscoveryError"
    /\ listings' = listings + 1
    /\ pc' = "close"
    /\ UNCHANGED <<resolver_vars, cli_vars, flights, next_tool, registry, clients, last_call, call>>

\* Line 25, __aexit__ at the end of the block (line 33) or on the exception
\* of list_tools: the discovery session is closed.
CloseDiscovery ==
    /\ pc = "close"
    /\ clients' = [clients EXCEPT ![1] = aexit(@, [exc |-> failure])]
    /\ pc' = IF failure = "none" THEN "register" ELSE "crashed"
    /\ UNCHANGED <<resolver_vars, cli_vars, flights, failure, tool_list, next_tool, registry,
                   listings, last_call, call>>

\* Lines 36-274, one pass of the loop: the stub is defined and the decorator
\* registers it under the tool's name; an exception ends setup_proxy_tools
\* and, not being caught in main (line 323), the process.
RegisterTool ==
    /\ pc = "register"
    /\ next_tool <= Len(tool_list)
    /\ LET made == make_stub(tool_list[next_tool])
       IN  IF made.exc = "none"
           THEN /\ registry' =
                       [n \in DOMAIN registry \cup {made.val.name} |->
                          IF n = made.val.name THEN made.val ELSE registry[n]]
                /\ next_tool' = next_tool + 1
                /\ pc' = pc
                /\ failure' = failure
           ELSE /\ pc' = "crashed"
                /\ failure' = made.exc
                /\ UNCHANGED <<registry, next_tool>>
    /\ UNCHANGED <<resolver_vars, cli_vars, flights, tool_list, clients, listings, last_call, call>>

\* A main that serves while the registration loop is still running.
setup_started(at, next, listed) == at = "register"

\* Lines 323-326: setup_proxy_tools has returned.
setup_done(at, next, listed) == at = "register" /\ next > Len(listed)

\* Lines 326-331: mcp.run, once setup_proxy_tools has returned.
Serve ==
    /\ setup_done(pc, next_tool, tool_list)
    /\ pc' = "serving"
    /\ UNCHANGED <<resolver_vars, cli_vars, flights, failure, tool_list, next_tool, registry,
                   clients, listings, last_call, call>>

\* The call as it stands when the arguments are bound and the payload is
\* built: on its way into the `async with` block, or ended by an exception.
started(bound) ==
    IF bound.exc = "none" THEN Flight("enter", 0, <<>>, Pending)
    ELSE Flight("returned", 0, <<>>, Raise(bound.exc))

\* Lines 253-256: a client calls a registered stub.
CallStub ==
    /\ pc = "serving"
    /\ call.pc \in {"idle", "returned"}
    /\ Len(clients) < MaxClients
    /\ \E name \in DOMAIN registry, args \in CallArgs :
          /\ last_call' = call_stub(registry[name], args)
          /\ call' = started(last_call')
    /\ UNCHANGED <<resolver_vars, cli_vars, flights, pc, failure, tool_list, next_tool, registry,
                   clients, listings>>

\* Line 257, __aenter__: the call's own session is opened, or the await
\* ends in an exception and the block is never entered.
EnterSession ==
    /\ call.pc = "enter"
    /\ \/ /\ clients' = Append(clients, Client("call"))
          /\ call' = Flight("open", Len(clients) + 1, <<>>, Pending)
       \/ \E e \in LocalFailures :
             /\ clients' = clients
             /\ call' = Flight("returned", 0, <<>>, Raise(e))
    /\ UNCHANGED <<resolver_vars, cli_vars, flights, pc, failure, tool_list, next_tool, registry,
                   listings, last_call>>

\* Line 258: client.call_tool(name, call_args) over the call's session.  The
\* endpoint answers, or the await ends without an answer, the request sent
\* or not.
CallTool ==
    /\ call.pc = "open"
    /\ \/ \E reply \in EndpointReplies :
             /\ call' = Flight("exit", call.client,
                               <<Sent(call.client, last_call.tool,
                                      last_call.payload, reply)>>, reply)
       \/ \E e \in LocalFailures :
             \/ call' = Flight("exit", call.client,
                               <<Sent(call.client, last_call.tool,
                                      last_call.payload, Pending)>>, Raise(e))
             \/ call' = Flight("exit", call.client, <<>>, Raise(e))
    /\ UNCHANGED <<resolver_vars, cli_vars, flights, pc, failure, tool_list, next_tool, registry,
                   clients, listings, last_call>>

\* Line 257, __aexit__: the block is left with the result or the exception
\* of line 258, the session is closed, and the stub ends with that outcome.
ExitSession ==
    /\ call.pc = "exit"
    /\ clients' = [clients EXCEPT ![call.client] = aexit(@, call.result)]
    /\ call' = [call EXCEPT !.pc = "returned"]
    /\ UNCHANGED <<resolver_vars, cli_vars, flights, pc, failure, tool_list, next_tool, registry,
                   listings, last_call>>

Next ==
    \/ Connect
    \/ ListTools
    \/ CloseDiscovery
    \/ RegisterTool
    \/ Serve
    \/ CallStub
    \/ EnterSession
    \/ CallTool
    \/ ExitSession

Spec == Init /\ [][Next]_vars

(* --------------------------- concurrent calls --------------------------- *)

\* The listings served while two callers call at once.
ServedLists ==
    {<<Tool("t", DPut(D1("properties",
                         Properties(<<"a", "b">>, TypeOnly("integer"),
                                    WithDefault("string", Word("z")))),
                      "required", JList(<<Word("a")>>)))>>,
     <<Tool("t", D1("properties", D1("a", TypeOnly("integer")))),
       Tool("u", DPut(D1("properties", D1("a", TypeOnly("integer"))),
                      "required", JList(<<Word("a")>>)))>>}

\* Lines 36-274 over a listing of distinct names whose stubs all compile: the
\* registry the loop leaves.
registered(listed) ==
    [n \in {listed[i].name : i \in 1..Len(listed)} |->
        make_stub(listed[CHOOSE i \in 1..Len(listed) : listed[i].name = n]).val]

\* The proxy as mcp.run finds it (line 326): the listing registered, the
\* discovery session closed, no call made yet.
InitServing ==
    /\ param_info = EmptyDict
    /\ resolved = Pending
    /\ InitCli
    /\ command = "none"
    /\ step = "none"
    /\ pc = "serving"
    /\ failure = "none"
    /\ tool_list \in ServedLists
    /\ next_tool = Len(tool_list) + 1
    /\ registry = registered(tool_list)
    /\ clients = <<aexit(Client("setup"), Ret(None))>>
    /\ listings = 1
    /\ last_call = NoCall
    /\ call = NoFlight
    /\ flights = [c \in Callers |-> Frame(NoCall, NoFlight)]

\* What the endpoint answers to one request: a result made from the name and
\* the payload of that request, or a tool error.
EndpointAnswers(name, payload) ==
    {Ret(JList(<<Word(name), payload>>)), Raise("ToolError")}

\* One frame for all calls, as if call_args and client were module globals.
shared(c, frames) == frames["c1"]

\* Lines 253-258: call_args and client are local variables of the coroutine,
\* so each call reads its own.
own(c, frames) == frames[c]

\* The sessions that calls already begun will still open.
ToOpen == Cardinality({c \in Callers : flights[c].flight.pc = "enter"})

\* Lines 253-256 for caller c: a registered stub is called while the other
\* caller's call may be under way.
CallerCalls(c) ==
    /\ pc = "serving"
    /\ flights[c].flight.pc \in {"idle", "returned"}
    /\ Len(clients) + ToOpen < MaxClients
    /\ \E name \in DOMAIN registry, args \in CallArgs :
          LET bound == call_stub(registry[name], args)
          IN  flights' = [flights EXCEPT ![c] = Frame(bound, started(bound))]
    /\ UNCHANGED <<resolver_vars, cli_vars, pc, failure, tool_list, next_tool,
                   registry, clients, listings, last_call, call>>

\* Line 257, __aenter__, for caller c.
CallerEnters(c) ==
    /\ flights[c].flight.pc = "enter"
    /\ \/ /\ clients' = Append(clients, Client("call"))
          /\ flights' = [flights EXCEPT ![c].flight =
                            Flight("open", Len(clients) + 1, <<>>, Pending)]
       \/ \E e \in LocalFailures :
             /\ clients' = clients
             /\ flights' = [flights EXCEPT ![c].flight =
                               Flight("returned", 0, <<>>, Raise(e))]
    /\ UNCHANGED <<resolver_vars, cli_vars, pc, failure, tool_list, next_tool,
                   registry, listings, last_call, call>>

\* Line 258 for caller c: client.call_tool(name, call_args) with the client
\* and the payload of the frame.
CallerSends(c) ==
    /\ flights[c].flight.pc = "open"
    /\ LET mine == own(c, flights)
       IN  \/ \E reply \in EndpointAnswers(mine.bound.tool, mine.bound.payload) :
                 flights' = [flights EXCEPT ![c].flight =
                                Flight("exit", mine.flight.client,
                                       <<Sent(mine.flight.client, mine.bound.tool,
                                              mine.bound.payload, reply)>>, reply)]
           \/ \E e \in LocalFailures :
                 \/ flights' = [flights EXCEPT ![c].flight =
                                   Flight("exit", mine.flight.client,
                                          <<Sent(mine.flight.client, mine.bound.tool,
                                                 mine.bound.payload, Pending)>>,
                                          Raise(e))]
                 \/ flights' = [flights EXCEPT ![c].flight =
                                   Flight("exit", mine.flight.client, <<>>, Raise(e))]
    /\ UNCHANGED <<resolver_vars, cli_vars, pc, failure, tool_list, next_tool,
                   registry, clients, listings, last_call, call>>

\* Line 257, __aexit__, for caller c: the client of the frame is closed.
CallerExits(c) ==
    /\ flights[c].flight.pc = "exit"
    /\ LET mine == own(c, flights)
       IN  /\ mine.flight.client \in 1..Len(clients)
           /\ clients' = [clients EXCEPT ![mine.flight.client] =
                             aexit(@, mine.flight.result)]
    /\ flights' = [flights EXCEPT ![c].flight.pc = "returned"]
    /\ UNCHANGED <<resolver_vars, cli_vars, pc, failure, tool_list, next_tool,
                   registry, listings, last_call, call>>

CallersCall == \E c \in Callers : CallerCalls(c)
CallersEnter == \E c \in Callers : CallerEnters(c)
CallersSend == \E c \in Callers : CallerSends(c)
CallersExit == \E c \in Callers : CallerExits(c)

NextConcurrent == CallersCall \/ CallersEnter \/ CallersSend \/ CallersExit

SpecConcurrent == InitServing /\ [][NextConcurrent]_vars

(* ------------------------------- the CLI ------------------------------- *)
(* One ModernMcpCli object of mcp_cli.py and the methods the commands      *)
(* tools, call and chat call on it.                                        *)

\* Most calls of cleanup on one object.
MaxCleanups == 2

\* What mcp_server_tools may return (line 113): the endpoint's tools.
ToolLists == {<<>>, <<"t">>, <<"t", "u">>}

\* The tool names of the command line (line 472).
CallNames == {"t", "u", "x"}

\* McpWorkbench.start(), line 118: the workbench runs, or the call raises
\* and it does not.
start_outcomes ==
    {[wb |-> "started", exc |-> "none"], [wb |-> "created", exc |-> "Exception"]}

\* McpWorkbench.stop(), line 390: a running workbench is stopped, or the
\* call raises, having stopped it or not; a workbench that is not running
\* stays as it is, the call returning or raising.
stop_outcomes(wb) ==
    IF wb = "started"
    THEN {[wb |-> "stopped", exc |-> "none"], [wb |-> "stopped", exc |-> "Exception"],
          [wb |-> "started", exc |-> "Exception"]}
    ELSE {[wb |-> wb, exc |-> "none"], [wb |-> wb, exc |-> "Exception"]}

\* McpWorkbench.list_tools() and call_tool(), lines 290 and 324: a request
\* to the endpoint, answered or ending in an exception.
request_outcomes == {"none", "Exception"}

\* A method whose exceptions leave it.
no_except(exc) == exc

\* try: ... except Exception as e: console.print(...) (lines 119, 313, 353,
\* 391): the exception is printed and does not leave the method.
except_Exception(exc) == "none"

\* Lines 108-131, setup_workbench: the tools are fetched, the workbench is
\* made and started; any exception gives False.
setup_workbench ==
    /\ setup = "not called"
    /\ \/ /\ setup' = "False"
          /\ UNCHANGED <<workbench, tools>>
       \/ \E listed \in ToolLists, begun \in start_outcomes :
             /\ tools' = listed
             /\ workbench' = begun.wb
             /\ setup' = IF begun.exc = "none" THEN "True" ELSE "False"
    /\ last_method' = Method("setup_workbench", workbench, "", TRUE,
                             IF setup' = "True" THEN "Connected"
                             ELSE "Failed to setup workbench",
                             "none")
    /\ UNCHANGED <<resolver_vars, proxy_vars, cleanups>>

\* Lines 283-315, list_tools.
list_tools ==
    /\ IF workbench = "None"
       THEN last_method' = Method("list_tools", workbench, "", FALSE,
                                  "Workbench not initialized", "none")
       ELSE \E e \in request_outcomes :
               last_method' =
                   Method("list_tools", workbench, "", TRUE,
                          IF e = "none" THEN "table" ELSE "Failed to list tools",
                          except_Exception(e))
    /\ UNCHANGED <<resolver_vars, proxy_vars, workbench, tools, setup, cleanups>>

\* Lines 317-356, call_tool(tool_name, **arguments).
call_tool ==
    /\ \E tool_name \in CallNames :
          IF workbench = "None"
          THEN last_method' = Method("call_tool", workbench, tool_name, FALSE,
                                     "Workbench not initialized", "none")
          ELSE \E e \in request_outcomes :
                  last_method' =
                      Method("call_tool", workbench, tool_name, TRUE,
                             IF e = "none" THEN "panel" ELSE "Failed to call tool",
                             except_Exception(e))
    /\ UNCHANGED <<resolver_vars, proxy_vars, workbench, tools, setup, cleanups>>

\* Lines 386-392, cleanup.
cleanup ==
    /\ cleanups < MaxCleanups
    /\ cleanups' = cleanups + 1
    /\ IF workbench = "None"
       THEN /\ last_method' = Method("cleanup", workbench, "", FALSE, "", "none")
            /\ workbench' = workbench
       ELSE \E stopped \in stop_outcomes(workbench) :
               /\ workbench' = stopped.wb
               /\ last_method' =
                      Method("cleanup", workbench, "", FALSE,
                             IF stopped.exc = "none" THEN "" ELSE "Cleanup error",
                             except_Exception(stopped.exc))
    /\ UNCHANGED <<resolver_vars, proxy_vars, tools, setup>>

\* The object by itself, outside any command.
InitObject ==
    /\ InitCli
    /\ command = "none"
    /\ step = "none"
    /\ InitProxy
    /\ param_info = EmptyDict
    /\ resolved = Pending

\* The methods called on the object in any order.
SetupWorkbenchAlone == setup_workbench /\ UNCHANGED command_vars

ListToolsAlone == list_tools /\ UNCHANGED command_vars

CallToolAlone == call_tool /\ UNCHANGED command_vars

CleanupAlone == cleanup /\ UNCHANGED command_vars

NextCli == SetupWorkbenchAlone \/ ListToolsAlone \/ CallToolAlone \/ CleanupAlone

SpecCli == InitObject /\ [][NextCli]_vars

(* ----------------------------- the commands ---------------------------- *)
(* run() of the commands tools, call and chat (lines 454-525): one         *)
(* ModernMcpCli object, its methods called inside try/finally.             *)

Commands == {"tools", "call", "chat"}

\* The first method run() calls (lines 464, 484, 513).
first_step(cmd) == IF cmd = "chat" THEN "setup_model_client" ELSE "setup_workbench"

\* A run() without try/finally: a failed step ends the command.
after_without_finally(cmd, at, ok) ==
    IF at = "cleanup" \/ ~ok THEN "done"
    ELSE IF at = "setup_model_client" THEN "setup_workbench"
    ELSE IF at = "setup_workbench"
    THEN IF cmd = "chat" THEN "setup_agent"
         ELSE IF cmd = "tools" THEN "list_tools" ELSE "arguments"
    ELSE IF at = "setup_agent" THEN "chat"
    ELSE IF at = "arguments" THEN "call_tool"
    ELSE "cleanup"

\* What run() does after the step `at` has returned ok: the next operand of
\* the `and` chain (lines 512-516), the operation behind `if` (lines 464,
\* 484, 518), or the finally clause (lines 466, 497, 522).
after(cmd, at, ok) ==
    IF at = "cleanup" THEN "done"
    ELSE IF ~ok THEN "cleanup"
    ELSE IF at = "setup_model_client" THEN "setup_workbench"
    ELSE IF at = "setup_workbench"
    THEN IF cmd = "chat" THEN "setup_agent"
         ELSE IF cmd = "tools" THEN "list_tools" ELSE "arguments"
    ELSE IF at = "setup_agent" THEN "chat"
    ELSE IF at = "arguments" THEN "call_tool"
    ELSE "cleanup"

Logged(method, returned) == [method |-> method, returned |-> returned]

\* Lines 133-157, setup_agent: True when the model client is there, the
\* tool list is not empty and AssistantAgent(...) does not raise.
setup_agent(client, listed, built) == client # "None" /\ listed # <<>> /\ built

\* Lines 51-69: the API key is found and the client is made, or not.
RunSetupModelClient ==
    /\ step = "setup_model_client"
    /\ \E ok \in BOOLEAN :
          /\ model_client' = IF ok THEN "ready" ELSE model_client
          /\ step' = after(command, step, ok)
          /\ log' = Append(log, Logged(step, ok))
    /\ UNCHANGED <<resolver_vars, proxy_vars, object_vars, command, agent>>

RunSetupWorkbench ==
    /\ step = "setup_workbench"
    /\ setup_workbench
    /\ step' = after(command, step, setup' = "True")
    /\ log' = Append(log, Logged(step, setup' = "True"))
    /\ UNCHANGED <<command, model_client, agent>>

RunSetupAgent ==
    /\ step = "setup_agent"
    /\ \E built \in BOOLEAN :
          /\ agent' = IF setup_agent(model_client, tools, built) THEN "ready" ELSE agent
          /\ step' = after(command, step, setup_agent(model_client, tools, built))
          /\ log' = Append(log, Logged(step, setup_agent(model_client, tools, built)))
    /\ UNCHANGED <<resolver_vars, proxy_vars, object_vars, command, model_client>>

\* Lines 358-384, chat: the loop is entered when there is an agent, and
\* ends by quit, interrupt or a printed exception.  Logged with whether the
\* loop was entered.
RunChat ==
    /\ step = "chat"
    /\ step' = after(command, step, TRUE)
    /\ log' = Append(log, Logged(step, agent # "None"))
    /\ UNCHANGED <<resolver_vars, proxy_vars, object_vars, command, model_client,
                   agent>>

RunListTools ==
    /\ step = "list_tools"
    /\ list_tools
    /\ step' = after(command, step, TRUE)
    /\ log' = Append(log, Logged(step, TRUE))
    /\ UNCHANGED <<command, model_client, agent>>

\* Lines 486-494: the key=value arguments are all well formed, or run()
\* returns.
ParseArguments ==
    /\ step = "arguments"
    /\ \E ok \in BOOLEAN :
          /\ step' = after(command, step, ok)
          /\ log' = Append(log, Logged(step, ok))
    /\ UNCHANGED <<resolver_vars, proxy_vars, object_vars, command, model_client,
                   agent>>

RunCallTool ==
    /\ step = "call_tool"
    /\ call_tool
    /\ step' = after(command, step, TRUE)
    /\ log' = Append(log, Logged(step, TRUE))
    /\ UNCHANGED <<command, model_client, agent>>

\* The finally clause.
RunCleanup ==
    /\ step = "cleanup"
    /\ cleanup
    /\ step' = after(command, step, TRUE)
    /\ log' = Append(log, Logged(step, TRUE))
    /\ UNCHANGED <<command, model_client, agent>>

InitCommand ==
    /\ InitCli
    /\ command \in Commands
    /\ step = first_step(command)
    /\ InitProxy
    /\ param_info = EmptyDict
    /\ resolved = Pending

NextCommand ==
    \/ RunSetupModelClient
    \/ RunSetupWorkbench
    \/ RunSetupAgent
    \/ RunChat
    \/ RunListTools
    \/ ParseArguments
    \/ RunCallTool
    \/ RunCleanup

SpecCommand == InitCommand /\ [][NextCommand]_vars

(* ------------------------------ properties ----------------------------- *)

Done == resolved # Pending

HasKey(key) == key \in DOMAIN param_info.at

TheType == Get(param_info, "type", None)

TheEnum == Get(param_info, "enum", None)

RECURSIVE FirstOccurrences(_)
\* A sequence without its repeated elements, in first-seen order.
FirstOccurrences(ts) ==
    IF ts = <<>> THEN <<>>
    ELSE <<Head(ts)>>
         \o FirstOccurrences(SelectSeq(Tail(ts), LAMBDA t : t # Head(ts)))

\* C1: the resolver is total: for every fragment, nested junk and type lists
\* of any length included, it returns one type Python can read and never
\* raises.
C1_ResolverTotal ==
    Done => /\ resolved.exc = "none"
            /\ py_eval(resolved.val).ok
            /\ py_eval(resolved.val).val.k = "type"

PrimitiveKinds == {"integer", "number", "boolean", "string", "null"}

PrimitiveOf(w) ==
    CASE w = "integer" -> <<"int">>
      [] w = "number" -> <<"float">>
      [] w = "boolean" -> <<"bool">>
      [] w = "string" -> <<"str">>
      [] w = "null" -> <<"type(None)">>

TypeIsPrimitive == IsStr(TheType) /\ \E w \in PrimitiveKinds : TheType.v = <<w>>

\* C2 as stated: a single primitive `type` yields that primitive, whatever
\* other keys the fragment carries.
C2_PrimitiveWhateverKeys ==
    (Done /\ TypeIsPrimitive) => resolved = Ret(PrimitiveOf(TheType.v[1]))

\* C2, amended: without a `$ref` key, a single primitive `type` yields that
\* primitive whatever other keys the fragment carries, `string` only when the
\* fragment has no enum or an empty one; with a `$ref` key the result is the
\* open map dict[str, Any].
C2_PrimitiveUnlessRefOrEnum ==
    (Done /\ TypeIsPrimitive)
    => /\ HasKey("$ref") => resolved = Ret(DictStrAny)
       /\ (/\ ~HasKey("$ref")
           /\ EqWord(TheType, "string") => ~Truthy(TheEnum))
          => resolved = Ret(PrimitiveOf(TheType.v[1]))

\* A number type beside an enum and a combinator, resolved to float.
C2_Witness ==
    /\ Done
    /\ EqWord(TheType, "number")
    /\ HasKey("enum") /\ Truthy(TheEnum)
    /\ resolved = Ret(<<"float">>)

EnumGiven == HasKey("enum") /\ IsList(TheEnum) /\ Len(TheEnum.v) >= 1

AllOfKind(vs, kinds) == \A i \in 1..Len(vs) : vs[i].k \in kinds

\* C3: an enum of one or more values that are all strings, all integers or
\* all numbers yields a Literal of exactly those values in their order
\* (checked where the enum is reached under either reading of the precedence:
\* no `$ref`, and a `type` that is absent or "string").
C3_EnumLiteral ==
    (/\ Done /\ EnumGiven /\ ~HasKey("$ref")
     /\ ~HasKey("type") \/ EqWord(TheType, "string")
     /\ AllOfKind(TheEnum.v, {"str"}) \/ AllOfKind(TheEnum.v, {"int", "float"}))
    => /\ resolved.exc = "none"
       /\ py_eval(resolved.val) =
              [ok |-> TRUE, val |-> TypeTerm("Literal", TheEnum.v)]

\* The literal kind of an enum value, a boolean being a boolean.
LiteralKind(v) ==
    CASE v.k = "str" -> "str"
      [] v.k = "bool" -> "bool"
      [] v.k = "int" -> "int"
      [] v.k = "float" -> "float"
      [] OTHER -> "Any"

\* C4: an enum mixing two or more literal kinds, not all of them numeric,
\* yields the Union of one primitive per literal kind present, in order of
\* first occurrence (checked where nothing but the enum decides: no `$ref`,
\* no `type`).
C4_MixedEnumUnion ==
    (/\ Done /\ EnumGiven /\ ~HasKey("$ref") /\ ~HasKey("type")
     /\ \E i, j \in 1..Len(TheEnum.v) :
            LiteralKind(TheEnum.v[i]) # LiteralKind(TheEnum.v[j])
     /\ ~AllOfKind(TheEnum.v, {"int", "float"}))
    => resolved = Ret(UnionOf(FirstOccurrences(
                      [i \in 1..Len(TheEnum.v) |-> <<LiteralKind(TheEnum.v[i])>>])))

PerKind == [i \in 1..Len(TheType.v) |->
              get_python_type(DPut(param_info, "type", TheType.v[i]))]

\* C5: a `type` list of two or more kinds yields the Union of the per-kind
\* resolutions, without repeated members, in the listed order.
C5_TypeListUnion ==
    (/\ Done /\ ~HasKey("$ref")
     /\ IsList(TheType) /\ Len(TheType.v) >= 2
     /\ FirstExc(PerKind) = "none")
    => resolved = Ret(UnionOf(FirstOccurrences(Vals(PerKind))))

\* The sub-schemas the code reads: anyOf, or oneOf when there is no anyOf.
Listed == Get(param_info, "anyOf", Get(param_info, "oneOf", JList(<<>>)))

Members == [i \in 1..Len(Listed.v) |-> get_python_type(Listed.v[i])]

Collapse(ts) == IF Len(ts) = 1 THEN ts[1] ELSE UnionOf(ts)

\* No rule that the stated precedence puts before the combinators applies:
\* no `$ref`, no type list, none of the kinds integer, number, boolean, null,
\* array and object, no enum.
BeforeCombinators ==
    /\ ~HasKey("$ref")
    /\ ~IsList(TheType)
    /\ ~\E w \in KindWords \ {"string"} : EqWord(TheType, w)
    /\ ~HasKey("enum")

\* C6: a fragment with a non-empty anyOf (or oneOf) that no earlier rule
\* takes resolves without error, and when every member resolves the result is
\* the single distinct member type or the Union of the distinct member types
\* in first-seen order.
C6_AnyOfDistinct ==
    (Done /\ (HasKey("anyOf") \/ HasKey("oneOf")) /\ BeforeCombinators
          /\ IsList(Listed) /\ Len(Listed.v) >= 1)
    => /\ resolved.exc = "none"
       /\ FirstExc(Members) = "none"
              => resolved = Ret(Collapse(FirstOccurrences(Vals(Members))))

AllOfList == Get(param_info, "allOf", JList(<<>>)).v

IsObjectSchema(m) == IsDict(m) /\ EqWord(Get(m, "type", None), "object")

PropsOf(m) == Get(m, "properties", EmptyDict)

RECURSIVE AllNames(_)
AllNames(ms) == IF ms = <<>> THEN <<>> ELSE PropsOf(Head(ms)).ks \o AllNames(Tail(ms))

\* The union of the members' properties, a name defined by the last member
\* that declares it.
Merged(ms) ==
    LET names == FirstOccurrences(AllNames(ms))
        last(n) == CHOOSE i \in 1..Len(ms) :
                      /\ n \in DOMAIN PropsOf(ms[i]).at
                      /\ \A j \in (i + 1)..Len(ms) : n \notin DOMAIN PropsOf(ms[j]).at
    IN  JDict(names, [n \in {names[i] : i \in 1..Len(names)} |->
                        PropsOf(ms[last(n)]).at[n]])

\* C7: an allOf that no earlier rule takes yields, when its members are all
\* object schemas, the object over the union of their properties with later
\* members winning, and the open map of string to Any otherwise.
C7_AllOfMerged ==
    (Done /\ HasKey("allOf") /\ BeforeCombinators
          /\ ~HasKey("anyOf") /\ ~HasKey("oneOf"))
    => resolved = IF \A i \in 1..Len(AllOfList) : IsObjectSchema(AllOfList[i])
                  THEN get_python_type(ObjectWith(Merged(AllOfList)))
                  ELSE Ret(DictStrAny)

(* ------------------------ properties of the proxy ---------------------- *)

PropertiesOf(tool) ==
    Get(IF Truthy(tool.inputSchema) THEN tool.inputSchema ELSE EmptyDict,
        "properties", EmptyDict)

RequiredOf(tool) ==
    Get(IF Truthy(tool.inputSchema) THEN tool.inputSchema ELSE EmptyDict,
        "required", JList(<<>>))

\* The schema lists the property among its required ones.
ListedRequired(tool, n) == \E i \in 1..Len(RequiredOf(tool).v) :
                              RequiredOf(tool).v[i] = Word(n)

\* The properties that are to become parameters.
Declared(tool) == DOMAIN PropertiesOf(tool).at \ {"ctx"}

DeclaredDefault(tool, n) == Get(PropertiesOf(tool).at[n], "default", None)

\* The tools whose stub is the one registered under their name.
Registered ==
    {i \in 1..(next_tool - 1) :
        \A j \in (i + 1)..(next_tool - 1) : tool_list[j].name # tool_list[i].name}

StubOf(i) == registry[tool_list[i].name]

HasParam(stub, n) == \E k \in 1..Len(stub.params) : stub.params[k].name = n

ParamOf(stub, n) ==
    stub.params[CHOOSE k \in 1..Len(stub.params) : stub.params[k].name = n]

\* C8: in every registered stub, a property that is not listed as required
\* and declares a non-null default is an optional parameter whose default
\* equals the declared value.
C8_DefaultIsDeclared ==
    \A i \in Registered : \A n \in Declared(tool_list[i]) :
        (~ListedRequired(tool_list[i], n)
            /\ DeclaredDefault(tool_list[i], n) # None)
        => /\ HasParam(StubOf(i), n)
           /\ ParamOf(StubOf(i), n) =
                  Param(n, TRUE, DeclaredDefault(tool_list[i], n))

\* C9: the payload of a forwarded call has no key for a parameter the caller
\* did not pass.
C9_OmittedNotForwarded ==
    last_call.exc = "none"
    => \A n \in DOMAIN last_call.payload.at : n \in DOMAIN last_call.args

\* C10 as stated: a parameter listed as required has no default, and a
\* parameter whose schema declares a default is optional whether or not it is
\* listed as required.
C10_DefaultMakesOptional ==
    \A i \in Registered : \A n \in Declared(tool_list[i]) :
        HasParam(StubOf(i), n)
        => /\ ListedRequired(tool_list[i], n)
                /\ DeclaredDefault(tool_list[i], n) = None
              => ~ParamOf(StubOf(i), n).has_default
           /\ DeclaredDefault(tool_list[i], n) # None
              => ParamOf(StubOf(i), n).has_default

\* C10, amended: every parameter of a registered stub is a declared property
\* and has no default exactly when the schema lists it as required; a default
\* declared for a listed property is ignored.
C10_RequiredIffListed ==
    \A i \in Registered : \A k \in 1..Len(StubOf(i).params) :
        LET prm == StubOf(i).params[k]
        IN  /\ prm.name \in Declared(tool_list[i])
            /\ prm.has_default <=> ~ListedRequired(tool_list[i], prm.name)

\* A registered stub whose schema lists `a` as required and declares a
\* default for it: the parameter has no default.
C10_Witness ==
    \E i \in Registered :
        /\ "a" \in Declared(tool_list[i])
        /\ ListedRequired(tool_list[i], "a")
        /\ DeclaredDefault(tool_list[i], "a") = Word("z")
        /\ HasParam(StubOf(i), "a")
        /\ ~ParamOf(StubOf(i), "a").has_default

\* setup_proxy_tools has returned, or has ended with an exception.
SetupReturned == pc = "serving" \/ setup_done(pc, next_tool, tool_list)

SetupEnded == SetupReturned \/ pc = "crashed"

\* The endpoint was reached and answered the listing.
ListingAnswered == listings = 1 /\ failure \notin {"ConnectError", "DiscoveryError"}

ToolNames == {tool_list[i].name : i \in 1..Len(tool_list)}

DistinctNames ==
    \A i, j \in 1..Len(tool_list) : i # j => tool_list[i].name # tool_list[j].name

ParamNamesOf(stub) == {stub.params[k].name : k \in 1..Len(stub.params)}

\* C11: for every discovered list of tools with pairwise distinct names,
\* whatever their parameter schemas, setup_proxy_tools ends with exactly one
\* stub registered under each tool's name, and each stub accepts exactly the
\* properties of its tool's schema other than the reserved `ctx`.
C11_OneStubPerTool ==
    (SetupEnded /\ ListingAnswered /\ DistinctNames)
    => /\ DOMAIN registry = ToolNames
       /\ \A i \in 1..Len(tool_list) :
              ParamNamesOf(registry[tool_list[i].name]) = Declared(tool_list[i])

\* C12: when two tools of one listing share a name, setup_proxy_tools fails
\* with DuplicateCapabilityError and the host holds no stub; the later stub
\* never takes the place of the earlier one (checked where no other
\* exception ends the setup first).
C12_DuplicateRejected ==
    (/\ SetupEnded /\ ListingAnswered /\ ~DistinctNames
     /\ failure \in {"none", "DuplicateCapabilityError"})
    => /\ failure = "DuplicateCapabilityError"
       /\ registry = <<>>

\* The stub of the latest call.
TheStub == registry[last_call.tool]

AllRequired(stub) == \A k \in 1..Len(stub.params) : ~stub.params[k].has_default

\* The payload is the mapping args, name by name.
SameMapping(payload, args) ==
    /\ DOMAIN payload.at = DOMAIN args
    /\ \A n \in DOMAIN args : payload.at[n] = args[n]

\* C13: a call of a stub whose parameters are all required, with a value for
\* each parameter, that no transport failure or cancellation cuts short,
\* makes exactly one call_tool request, to the tool's own name, with a
\* payload equal to the supplied mapping, and ends with the endpoint's
\* answer, result or error, unchanged.
C13_ForwardedExactly ==
    (/\ call.pc = "returned"
     /\ AllRequired(TheStub)
     /\ DOMAIN last_call.args = ParamNamesOf(TheStub)
     /\ call.result.exc \notin LocalFailures)
    => /\ Len(call.sent) = 1
       /\ call.sent[1].name = TheStub.name
       /\ SameMapping(call.sent[1].payload, last_call.args)
       /\ call.result = call.sent[1].reply

\* The value a parameter has in the body of the latest call.
ValueOf(prm) ==
    IF prm.name \in DOMAIN last_call.args THEN last_call.args[prm.name]
    ELSE prm.default

\* C14: in every forwarded call the payload has a key for every required
\* parameter, with the value the caller supplied, null included, and the
\* only parameters left out are optional ones whose value is None.
C14_OnlyOptionalDropped ==
    last_call.exc = "none"
    => \A k \in 1..Len(TheStub.params) :
          LET prm == TheStub.params[k]
          IN  /\ ~prm.has_default
                 => /\ prm.name \in DOMAIN last_call.payload.at
                    /\ last_call.payload.at[prm.name] = last_call.args[prm.name]
              /\ prm.name \notin DOMAIN last_call.payload.at
                 => prm.has_default /\ ValueOf(prm) = None

\* The sessions opened by stub calls.
CallClients == {i \in 1..Len(clients) : clients[i].owner = "call"}

\* The latest call is inside its `async with` block.
InBlock == call.pc \in {"open", "exit"}

C16_DiscoverThenServe ==
    /\ listings <= 1
    /\ \A i \in 1..Len(clients) : clients[i].owner = "setup" <=> i = 1
    /\ listings = 1 => Len(clients) >= 1
    /\ pc = "close" => clients[1].open
    /\ (pc \in {"register", "serving"} \/ next_tool > 1 \/ registry # <<>>)
       => listings = 1 /\ ~clients[1].open
    /\ pc = "serving"
       => /\ failure = "none"
          /\ next_tool = Len(tool_list) + 1
          /\ \A i \in 1..Len(tool_list) : tool_list[i].name \in DOMAIN registry
    /\ (last_call # NoCall \/ call # NoFlight) => pc = "serving"

\* Two tools listed and registered, the discovery session closed, and a
\* stub call under way in its own session.
C16_Witness ==
    /\ pc = "serving"
    /\ Len(tool_list) = 2
    /\ DOMAIN registry = {"t", "u"}
    /\ listings = 1
    /\ ~clients[1].open
    /\ call.pc = "open"

\* C17: whenever setup_proxy_tools has ended, normally or with an exception,
\* the host holds a stub for every listed tool or no stub at all, and none
\* when the connection or the listing failed.
C17_AllOrNothing ==
    SetupEnded
    => /\ registry = <<>> \/ DOMAIN registry = ToolNames
       /\ failure \in {"ConnectError", "DiscoveryError"} => registry = <<>>

\* The latest call leaves out a parameter that has no default, or passes a
\* name that is no parameter of the stub.
Rejectable ==
    /\ last_call # NoCall
    /\ \/ \E n \in DOMAIN last_call.args : n \notin ParamNamesOf(TheStub)
       \/ \E k \in 1..Len(TheStub.params) :
             /\ ~TheStub.params[k].has_default
             /\ TheStub.params[k].name \notin DOMAIN last_call.args

\* C19: a stub call that omits a required argument or passes an argument
\* name that is not in the stub's signature ends with TypeError before any
\* session is opened and without any remote call.
C19_RejectedBeforeSession ==
    Rejectable
    => /\ last_call.exc = "TypeError"
       /\ call = Flight("returned", 0, <<>>, Raise("TypeError"))
       /\ \A i \in CallClients : ~clients[i].open

\* A stub with the required parameter a, called with the unknown name x:
\* rejected, no session beside the closed discovery session.
C19_Witness ==
    /\ Rejectable
    /\ DOMAIN last_call.args = {"x"}
    /\ HasParam(TheStub, "a") /\ ~ParamOf(TheStub, "a").has_default
    /\ call.result = Raise("TypeError")
    /\ Len(clients) = 1

(* ------------------------- properties of the CLI ----------------------- *)

\* The names of the tools the setup discovered.
Discovered == {tools[i] : i \in 1..Len(tools)}

\* C18: call_tool with a name that is not among the discovered tools fails
\* with NotFound and sends nothing to the endpoint (checked for a workbench
\* that setup_workbench has started).
C18_UnknownNameNotSent ==
    (/\ last_method.op = "call_tool"
     /\ setup = "True" /\ last_method.before = "started"
     /\ last_method.name \notin Discovered)
    => /\ last_method.outcome = "NotFound"
       /\ ~last_method.sent

C21_OnlyWhenReady ==
    (last_method.op \in {"list_tools", "call_tool"} /\ last_method.sent)
    => last_method.before = "started"

\* The setup steps of chat, in the order of the `and` chain.
ChatOrder == <<"setup_model_client", "setup_workbench", "setup_agent", "chat">>

\* What run() called before the finally clause.
BeforeFinally == SelectSeq(log, LAMBDA l : l.method # "cleanup")

ChatEntered == \E i \in 1..Len(log) : log[i].method = "chat" /\ log[i].returned

\* C28: in the chat command the chat loop is entered only after
\* setup_model_client, setup_workbench and setup_agent have each returned
\* True, in that order; after a step that failed nothing runs but cleanup;
\* setup_agent fails when no tool was discovered; and in tools, call and
\* chat cleanup has run exactly once when the command ends, and not before
\* its other steps are over.
C28_SetupOrderThenCleanup ==
    /\ command = "chat"
       => /\ Len(BeforeFinally) <= Len(ChatOrder)
          /\ \A i \in 1..Len(BeforeFinally) : BeforeFinally[i].method = ChatOrder[i]
    /\ \A i, j \in 1..Len(log) :
          (i < j /\ ~log[i].returned) => log[j].method = "cleanup"
    /\ ChatEntered
       => /\ model_client = "ready" /\ setup = "True" /\ agent = "ready"
          /\ \A i \in 1..3 : log[i].returned
    /\ agent = "ready" => tools # <<>>
    /\ cleanups = Len(log) - Len(BeforeFinally)
    /\ cleanups = IF step = "done" THEN 1 ELSE 0
    /\ step = "done" => log[Len(log)].method = "cleanup"

\* The chat command has ended: three setups, the loop, one cleanup.
C28_Witness ==
    /\ command = "chat"
    /\ step = "done"
    /\ ChatEntered
    /\ Len(log) = 5
    /\ cleanups = 1


(* -------------------- properties of concurrent calls ------------------- *)

\* The callers whose call is inside the async with block of line 257.
Inside == {c \in Callers : flights[c].flight.pc \in {"open", "exit"}}

\* C22: concurrent proxied calls are isolated.  Every call inside its block
\* has an open session of its own that no other call uses; what a call
\* forwards goes over that session and is the name and the payload the stub
\* builds from that call's arguments alone; and a result it returns is the
\* endpoint's answer to that very request.
C22_Isolated ==
    \A c \in Callers :
       LET f == flights[c].flight
           b == flights[c].bound
       IN  /\ c \in Inside =>
                /\ f.client \in 2..Len(clients)
                /\ clients[f.client] = Client("call")
                /\ \A d \in Inside \ {c} : flights[d].flight.client # f.client
           /\ f.pc # "idle" =>
                /\ b.tool \in DOMAIN registry
                /\ b = call_stub(registry[b.tool], b.args)
                /\ \A i \in 1..Len(f.sent) :
                      /\ f.sent[i].client = f.client
                      /\ f.sent[i].name = b.tool
                      /\ f.sent[i].payload = b.payload
           /\ (f.pc = "returned" /\ f.result.exc = "none") =>
                /\ f.result = Ret(JList(<<Word(b.tool), b.payload>>))
                /\ f.sent # <<>>
                /\ ~clients[f.client].open

\* Both callers are inside their blocks for the same stub with different
\* payloads, the second already answered.
C22_Witness ==
    /\ Inside = Callers
    /\ flights["c1"].bound.tool = flights["c2"].bound.tool
    /\ flights["c1"].bound.payload # flights["c2"].bound.payload
    /\ flights["c1"].flight.pc = "open"
    /\ flights["c2"].flight.pc = "exit"
    /\ flights["c2"].flight.result.exc = "none"


(* ------------------- parameter order and reserved names ----------------- *)

\* The declared properties in declaration order, `ctx` left out.
DeclaredOrder(tool) == param_calls(PropertiesOf(tool))

\* The listed-required names first, the others behind, each group in
\* declaration order.
Partitioned(tool) ==
    SelectSeq(DeclaredOrder(tool), LAMBDA n : ListedRequired(tool, n))
    \o SelectSeq(DeclaredOrder(tool), LAMBDA n : ~ListedRequired(tool, n))

\* Every property of the tool is a bare integer, so that nothing but the
\* order of the parameters can stop the stub from compiling.
BareIntegers(tool) ==
    \A n \in DOMAIN PropertiesOf(tool).at :
        PropertiesOf(tool).at[n] = TypeOnly("integer")

\* C23: when setup_proxy_tools has ended over an answered listing of tools
\* with bare integer properties, every tool has its stub registered, and the
\* stub's parameters are the required ones first and the optional ones
\* behind, each group in declaration order -- also when the schema declares
\* an optional property before a required one.
C23_StablePartition ==
    (SetupEnded /\ ListingAnswered /\ DistinctNames
        /\ \A i \in 1..Len(tool_list) : BareIntegers(tool_list[i]))
    => \A i \in 1..Len(tool_list) :
          /\ tool_list[i].name \in DOMAIN registry
          /\ [k \in 1..Len(registry[tool_list[i].name].params) |->
                 registry[tool_list[i].name].params[k].name]
             = Partitioned(tool_list[i])

\* C24: no registered stub has a parameter named `ctx`, every other declared
\* property is a parameter of its stub, and no forwarded payload has a key
\* `ctx`; a caller that passes `ctx` is rejected.
C24_CtxReserved ==
    /\ \A i \in Registered :
          /\ ~HasParam(StubOf(i), "ctx")
          /\ \A n \in DOMAIN PropertiesOf(tool_list[i]).at \ {"ctx"} :
                HasParam(StubOf(i), n)
          /\ \A k \in 1..Len(StubOf(i).param_calls) :
                StubOf(i).param_calls[k] # "ctx"
    /\ last_call.exc = "none" => "ctx" \notin DOMAIN last_call.payload.at
    /\ "ctx" \in DOMAIN last_call.args => last_call.exc = "TypeError"

\* A stub registered for a schema that declares `ctx` and another property,
\* and a call of it forwarded with a payload.
C24_Witness ==
    /\ pc = "serving"
    /\ \E i \in Registered :
          /\ "ctx" \in DOMAIN PropertiesOf(tool_list[i]).at
          /\ Declared(tool_list[i]) # {}
          /\ last_call.tool = tool_list[i].name
    /\ last_call.exc = "none"
    /\ last_call.payload # EmptyDict

(* ------------------ precedence, objects and unions --------------------- *)

\* No rule that the stated precedence puts before the combinators applies,
\* and the fragment has no `type` or the bare `type` "string".
CombinatorsDecide ==
    /\ ~HasKey("$ref")
    /\ ~HasKey("enum")
    /\ ~HasKey("type") \/ EqWord(TheType, "string")

\* C25: in a fragment that carries no `$ref`, no enum and at most the bare
\* `type` "string", anyOf/oneOf decides the result before allOf, and allOf
\* decides it before the bare `type`.
C25_CombinatorFirst ==
    (Done /\ CombinatorsDecide)
    => IF HasKey("anyOf") \/ HasKey("oneOf")
       THEN resolved = any_of_type(param_info)
       ELSE HasKey("allOf") => resolved = all_of_type(param_info)

NamesOf(properties) == {properties.ks[i] : i \in 1..Len(properties.ks)}

TheProperties == Get(param_info, "properties", EmptyDict)

TheAdditional == Get(param_info, "additionalProperties", None)

\* C26: for a fragment of `type` "object" (no `$ref`, no enum): with a
\* `properties` mapping the result differs from the result of every object
\* schema that declares other property names; without `properties` and with
\* a schema as `additionalProperties` it is the map over the resolved
\* `additionalProperties`; without either it is the map of str to Any.
C26_ObjectByName ==
    (Done /\ EqWord(TheType, "object") /\ ~HasKey("$ref") /\ ~HasKey("enum")
          /\ resolved.exc = "none")
    => IF HasKey("properties")
       THEN IsDict(TheProperties)
            => \A q \in PropDicts :
                  NamesOf(q) # NamesOf(TheProperties)
                  => get_python_type(ObjectWith(q)) # resolved
       ELSE IF IsDict(TheAdditional)
       THEN get_python_type(TheAdditional).exc = "none"
            /\ resolved = Ret(DictStr(get_python_type(TheAdditional).val))
       ELSE resolved = Ret(DictStrAny)

RECURSIVE ProperUnions(_)
\* Every Union of a type term, nested ones included, has two or more
\* variants, no two of them equal.
ProperUnions(term) ==
    term.k = "type"
    => /\ term.name = "Union"
          => /\ Len(term.args) >= 2
             /\ \A i, j \in 1..Len(term.args) :
                   i # j => term.args[i] # term.args[j]
       /\ \A i \in 1..Len(term.args) : ProperUnions(term.args[i])

\* C27: every Union in a type the resolver returns, at any depth, has two
\* or more variants and no two equal variants.
C27_ProperUnions ==
    (Done /\ resolved.exc = "none" /\ py_eval(resolved.val).ok)
    => ProperUnions(py_eval(resolved.val).val)

============================================================================
